---- MODULE Spec2Model ----
(***************************************************************************)
(* Model of sos_notebook/workflow_executor.py: the module-level workflow   *)
(* queue g_workflow_queue, the two operations that mutate it               *)
(* (run_sos_workflow, cancel_workflow), the worker process                 *)
(* Tapped_Executor and the process-wide configuration env.config.          *)
(*                                                                         *)
(* The kernel calls run_sos_workflow and cancel_workflow synchronously, so *)
(* each call is one atomic action.  Every started Tapped_Executor is an OS *)
(* process of its own and advances independently of the calls.             *)
(*                                                                         *)
(* Of env.config the model follows slave_id and run_mode.                  *)
(*                                                                         *)
(* Three specifications share the actions:                                 *)
(*   Spec       - the queue operations and the workers, in behaviours of   *)
(*                at most MaxSubmits insertions;                           *)
(*   ConfigSpec - Spec's actions and execute_scratch_cell (lines 79-174),  *)
(*                which also writes env.config;                            *)
(*   LiveSpec   - behaviours that never stop, with the serials reused,     *)
(*                under fairness.                                          *)
(***************************************************************************)
EXTENDS Naturals, Sequences, FiniteSets

\* ------------------------------------------------------------------ bounds
\* Number of queue insertions (line 246) a behaviour may contain.  Every
\* insertion gets a serial number 1..MaxSubmits; the worker started for an
\* insertion is identified by that serial.
MaxSubmits == 3

\* kernel.cell_id values
CellIds == {"A", "B", "C"}

\* The cell text and the %run arguments of the n-th insertion.  The module
\* never reads either (they are written to a file and pasted into a command
\* line, lines 200-202), so every insertion carries a text and an argument
\* string of its own: any mix-up between two submissions shows.
CodeOf(n) == <<"code", n>>
ArgsOf(n) == <<"args", n>>

\* What psutil.pid_exists(proc.pid) on line 285 can observe after
\* kill_all_subprocesses + terminate (both outside this repository):
\*   gone     - the process is dead and reaped, the pid no longer exists
\*   survives - the process outlived the signals, the pid still exists
KillOutcomes == {"gone", "survives"}

\* What pexpect_run (line 203) can do: return the engine's exit status
\* (zero or not) or raise.
EngineOutcomes == {"exit0", "exit1", "raise"}

VARIABLES
    g_workflow_queue,   \* OrderedDict cell_id -> tuple | Tapped_Executor, as a sequence in insertion order
    procs,              \* serial -> the Tapped_Executor process started for that insertion
    informer,           \* messages pushed on the tapping_listener socket, in send order
    env_config,         \* env.config, shared by reference with every queued tuple
    nsub,               \* serial of the most recent insertion (in Spec: the number of insertions so far)
    last                \* what the kernel saw of the most recent run_sos_workflow / cancel_workflow call

vars == <<g_workflow_queue, procs, informer, env_config, nsub, last>>

\* One serial more than a behaviour of Spec uses: where serials are reused
\* (LiveSpec), an insertion made while every identity has an entry still
\* finds a serial that no entry carries.
Serials == 1..(MaxSubmits + 1)

\* -------------------------------------------------------- queue primitives
\* isinstance(y, tuple), lines 250, 255, 280
IsTuple(e) == e.kind = "tuple"

\* g_workflow_queue.keys()
Keys(q) == {q[i].cell_id : i \in DOMAIN q}

\* list(g_workflow_queue.keys()).index(cell_id): 0-based
KeyIndex(q, c) == (CHOOSE i \in DOMAIN q : q[i].cell_id = c) - 1

\* g_workflow_queue[cell_id]
Lookup(q, c) == q[KeyIndex(q, c) + 1]

\* g_workflow_queue.pop(cell_id), line 287
\* (PopKeepsTuple: a pop that only drops a worker handle)
PopKeepsTuple(q, c) == SelectSeq(q, LAMBDA e : e.cell_id # c \/ IsTuple(e))
Pop(q, c) == SelectSeq(q, LAMBDA e : e.cell_id # c)

\* g_workflow_queue[cell_id] = (code, raw_args, env.config), line 246: an
\* OrderedDict keeps the place of a key it already holds and puts a new key
\* at the end.  The tuple holds env.config itself, not a copy, so the entry
\* records no configuration of its own.  The field submitted_run_mode is
\* not in the tuple: it notes what env.config['run_mode'] was when line 246
\* ran, and nothing in the model reads it.
\* (InsertFront: the new item put first, as move_to_end(last=False) would)
InsertFront(q, c, code, args, s) ==
    <<[cell_id |-> c, kind |-> "tuple", code |-> code, args |-> args, sub |-> s,
       submitted_run_mode |-> env_config.run_mode]>> \o q
Insert(q, c, code, args, s) ==
    LET item == [cell_id |-> c, kind |-> "tuple", code |-> code, args |-> args, sub |-> s,
                 submitted_run_mode |-> env_config.run_mode]
    IN IF c \in Keys(q) THEN [q EXCEPT ![KeyIndex(q, c) + 1] = item] ELSE Append(q, item)

\* y.is_alive() and psutil.pid_exists(y.pid), lines 250 and 281
Alive(p, s) == p[s].state \in {"running", "sent"}

\* lines 248-250: keep the tuples and the executors whose process is alive
\* (PruneKeepsAll: lines 248-250 left out;
\*  PruneDropsRunning: the filter without its liveness test, only tuples kept)
PruneKeepsAll(q, p) == q
PruneDropsRunning(q, p) == SelectSeq(q, LAMBDA e : IsTuple(e))
Prune(q, p) == SelectSeq(q, LAMBDA e : IsTuple(e) \/ Alive(p, e.sub))

\* the number in the 'pending' message, line 266
\* (PositionZeroBased: the index without the + 1)
PositionZeroBased(q, c) == KeyIndex(q, c)
Position(q, c) == KeyIndex(q, c) + 1

\* frontend messages (kernel.send_frontend_msg('workflow_status', ...)),
\* lines 262-267 and 273-276; msg is the n of '#n in queue'
Aborted(c) == [cell_id |-> c, status |-> "aborted", msg |-> 0]
Pending(c, n) == [cell_id |-> c, status |-> "pending", msg |-> n]

\* a serial no process was started for
NoProc == [state |-> "none", slave_id |-> "", run_mode |-> "", code |-> <<>>, args |-> <<>>]

\* ------------------------------------------------------------ cancel path
\* lines 283-284: the process after kill_all_subprocesses and terminate
AfterKill(p, s, kill) ==
    [p EXCEPT ![s].state = IF kill = "gone" THEN "killed" ELSE p[s].state]

\* psutil.pid_exists(proc.pid), line 285
PidExists(p, s) == p[s].state \in {"running", "sent"}

\* cancel_workflow(cell_id, kernel), lines 270-287, as a function of the
\* queue and the processes: the new queue and processes, the frontend
\* messages sent and the error raised ("none" when the call returns).
\* Faulty variants, for comparison:
\*   CancelNoMembershipCheck - line 277 left out: the pop raises KeyError
\*   CancelNoKill            - lines 280-286 left out: the entry is popped, the worker lives on
\*   CancelNoPop             - line 287 left out: the worker is killed, the entry stays
\*   CancelUnconfirmed       - lines 285-286 left out: the entry is popped whatever the kill did
\*   CancelAndPrune          - the filter of lines 248-250 run after line 287 as well
\*   CancelAbortedOnPop      - lines 273-276 moved behind line 287: 'aborted' sent only for a popped entry
\*   CancelPromotesNext      - lines 254-259 run after line 287 as well: the new first item is started
CancelNoMembershipCheck(q, p, c, kill) ==
    IF c \notin Keys(q)
    THEN [queue |-> q, procs |-> p, msgs |-> <<Aborted(c)>>, error |-> "KeyError"]
    ELSE [queue |-> Pop(q, c), procs |-> p, msgs |-> <<Aborted(c)>>, error |-> "none"]
CancelNoKill(q, p, c, kill) ==
    [queue |-> Pop(q, c), procs |-> p, msgs |-> <<Aborted(c)>>, error |-> "none"]
CancelNoPop(q, p, c, kill) ==
    IF c \notin Keys(q)
    THEN [queue |-> q, procs |-> p, msgs |-> <<Aborted(c)>>, error |-> "none"]
    ELSE LET proc == Lookup(q, c) IN
         IF ~IsTuple(proc) /\ Alive(p, proc.sub)
         THEN LET p1 == AfterKill(p, proc.sub, kill) IN
              IF PidExists(p1, proc.sub)
              THEN [queue |-> q, procs |-> p1, msgs |-> <<Aborted(c)>>,
                    error |-> "Failed to kill workflow"]
              ELSE [queue |-> q, procs |-> p1, msgs |-> <<Aborted(c)>>, error |-> "none"]
         ELSE [queue |-> q, procs |-> p, msgs |-> <<Aborted(c)>>, error |-> "none"]
CancelUnconfirmed(q, p, c, kill) ==
    IF c \notin Keys(q)
    THEN [queue |-> q, procs |-> p, msgs |-> <<Aborted(c)>>, error |-> "none"]
    ELSE LET proc == Lookup(q, c) IN
         IF ~IsTuple(proc) /\ Alive(p, proc.sub)
         THEN [queue |-> Pop(q, c), procs |-> AfterKill(p, proc.sub, kill),
               msgs |-> <<Aborted(c)>>, error |-> "none"]
         ELSE [queue |-> Pop(q, c), procs |-> p, msgs |-> <<Aborted(c)>>, error |-> "none"]
CancelPromotesNext(q, p, c, kill) ==
    LET promote(q1, p1) ==
            IF q1 # <<>> /\ IsTuple(q1[1])
            THEN [queue |-> [q1 EXCEPT ![1].kind = "executor"],
                  procs |-> [p1 EXCEPT ![q1[1].sub] =
                               [state |-> "running", slave_id |-> q1[1].cell_id,
                                run_mode |-> env_config.run_mode, code |-> q1[1].code,
                                args |-> q1[1].args]],
                  msgs |-> <<Aborted(c)>>, error |-> "none"]
            ELSE [queue |-> q1, procs |-> p1, msgs |-> <<Aborted(c)>>, error |-> "none"]
    IN
    IF c \notin Keys(q)
    THEN [queue |-> q, procs |-> p, msgs |-> <<Aborted(c)>>, error |-> "none"]
    ELSE LET proc == Lookup(q, c) IN
         IF ~IsTuple(proc) /\ Alive(p, proc.sub)
         THEN LET p1 == AfterKill(p, proc.sub, kill) IN
              IF PidExists(p1, proc.sub)
              THEN [queue |-> q, procs |-> p1, msgs |-> <<Aborted(c)>>,
                    error |-> "Failed to kill workflow"]
              ELSE promote(Pop(q, c), p1)
         ELSE promote(Pop(q, c), p)
CancelAbortedOnPop(q, p, c, kill) ==
    IF c \notin Keys(q)
    THEN [queue |-> q, procs |-> p, msgs |-> <<>>, error |-> "none"]
    ELSE LET proc == Lookup(q, c) IN
         IF ~IsTuple(proc) /\ Alive(p, proc.sub)
         THEN LET p1 == AfterKill(p, proc.sub, kill) IN
              IF PidExists(p1, proc.sub)
              THEN [queue |-> q, procs |-> p1, msgs |-> <<>>,
                    error |-> "Failed to kill workflow"]
              ELSE [queue |-> Pop(q, c), procs |-> p1, msgs |-> <<Aborted(c)>>,
                    error |-> "none"]
         ELSE [queue |-> Pop(q, c), procs |-> p, msgs |-> <<Aborted(c)>>, error |-> "none"]
CancelAndPrune(q, p, c, kill) ==
    IF c \notin Keys(q)
    THEN [queue |-> q, procs |-> p, msgs |-> <<Aborted(c)>>, error |-> "none"]
    ELSE LET proc == Lookup(q, c) IN
         IF ~IsTuple(proc) /\ Alive(p, proc.sub)
         THEN LET p1 == AfterKill(p, proc.sub, kill) IN
              IF PidExists(p1, proc.sub)
              THEN [queue |-> q, procs |-> p1, msgs |-> <<Aborted(c)>>,
                    error |-> "Failed to kill workflow"]
              ELSE [queue |-> Prune(Pop(q, c), p1), procs |-> p1, msgs |-> <<Aborted(c)>>,
                    error |-> "none"]
         ELSE [queue |-> Prune(Pop(q, c), p), procs |-> p, msgs |-> <<Aborted(c)>>,
               error |-> "none"]
CancelResult(q, p, c, kill) ==
    IF c \notin Keys(q)
    THEN [queue |-> q, procs |-> p, msgs |-> <<Aborted(c)>>, error |-> "none"]
    ELSE LET proc == Lookup(q, c) IN
         IF ~IsTuple(proc) /\ Alive(p, proc.sub)
         THEN LET p1 == AfterKill(p, proc.sub, kill) IN
              IF PidExists(p1, proc.sub)
              THEN [queue |-> q, procs |-> p1, msgs |-> <<Aborted(c)>>,
                    error |-> "Failed to kill workflow"]
              ELSE [queue |-> Pop(q, c), procs |-> p1, msgs |-> <<Aborted(c)>>,
                    error |-> "none"]
         ELSE [queue |-> Pop(q, c), procs |-> p, msgs |-> <<Aborted(c)>>, error |-> "none"]

\* ------------------------------------------------------------------- Init
\* g_workflow_queue = OrderedDict() (line 234); no process, no message
Init ==
    /\ g_workflow_queue = <<>>
    /\ procs = [s \in Serials |-> NoProc]
    /\ informer = <<>>
    /\ env_config = [slave_id |-> "", run_mode |-> "interactive"]
    /\ nsub = 0
    /\ last = [op |-> "none", cell_id |-> "", error |-> "none", msgs |-> <<>>]

\* ---------------------------------------------------------------- actions
\* cancel_workflow(cell_id, kernel), lines 270-287
cancel_workflow(c) ==
    \E kill \in KillOutcomes :
        LET r == CancelResult(g_workflow_queue, procs, c, kill) IN
        /\ g_workflow_queue' = r.queue
        /\ procs' = r.procs
        /\ last' = [op |-> "cancel", cell_id |-> c, error |-> r.error, msgs |-> r.msgs]
        /\ UNCHANGED <<informer, env_config, nsub>>

\* lines 254-259 when the first item is a tuple: Tapped_Executor(*item) is
\* built from the tuple's code and arguments and from env.config as it is
\* after line 256, and start() gives the child process a copy of all three.
\* caller is kernel.cell_id.
\* (StartedForCaller: slave_id taken from the caller instead of line 256)
StartedForCaller(p, item, cfg, caller) ==
    [p EXCEPT ![item.sub] = [state |-> "running", slave_id |-> caller,
                             run_mode |-> cfg.run_mode, code |-> item.code,
                             args |-> item.args]]
Started(p, item, cfg, caller) ==
    [p EXCEPT ![item.sub] = [state |-> "running", slave_id |-> cfg.slave_id,
                             run_mode |-> cfg.run_mode, code |-> item.code,
                             args |-> item.args]]

\* run_sos_workflow(code, raw_args, kernel), lines 237-267, with
\* c = kernel.cell_id, s the serial the insertion of line 246 gets and p the
\* processes as they are when the call is made.
\* spawn tells whether executor.start() (line 258) returns or raises.
Submit(c, code, args, s, p) ==
    \E kill \in KillOutcomes, spawn \in BOOLEAN :
        LET r == IF c \in Keys(g_workflow_queue)
                 THEN CancelResult(g_workflow_queue, p, c, kill)
                 ELSE [queue |-> g_workflow_queue, procs |-> p, msgs |-> <<>>,
                       error |-> "none"]
            call == [op |-> "submit", cell_id |-> c, error |-> r.error, msgs |-> r.msgs]
        IN
        IF r.error # "none"
        THEN \* line 245 raised: nothing after it runs
             /\ g_workflow_queue' = r.queue
             /\ procs' = r.procs
             /\ last' = call
             /\ UNCHANGED <<env_config, nsub>>
        ELSE LET q1 == Insert(r.queue, c, code, args, s)
                 q2 == Prune(q1, r.procs)
                 item == q2[1]
                 cfg == [env_config EXCEPT !.slave_id = item.cell_id]
             IN
             /\ nsub' = s
             /\ IF IsTuple(item)
                THEN /\ env_config' = cfg
                     /\ IF spawn
                        THEN /\ procs' = Started(r.procs, item, cfg, c)
                             /\ g_workflow_queue' = [q2 EXCEPT ![1].kind = "executor"]
                             /\ last' = [call EXCEPT !.msgs =
                                    Append(r.msgs, Pending(c, Position(g_workflow_queue', c)))]
                        ELSE \* line 258 raised: lines 259-267 do not run
                             /\ procs' = r.procs
                             /\ g_workflow_queue' = q2
                             /\ last' = [call EXCEPT !.error = "start failed"]
                ELSE /\ env_config' = env_config
                     /\ procs' = r.procs
                     /\ g_workflow_queue' = q2
                     /\ last' = [call EXCEPT !.msgs =
                                    Append(r.msgs, Pending(c, Position(q2, c)))]

\* run_sos_workflow, lines 237-267, in a behaviour of at most MaxSubmits
\* insertions: the n-th insertion gets serial n
run_sos_workflow(c, code, args) ==
    /\ nsub < MaxSubmits
    /\ Submit(c, code, args, nsub + 1, procs)
    /\ informer' = informer

\* Tapped_Executor.run, lines 197-221: the status of the terminal message
\* by how pexpect_run ended.  ret_code (line 203) is not read again.
TerminalStatus(out) == IF out = "raise" THEN "failed" ELSE "completed"

\* lines 205-221: the informer socket after the worker of insertion s has
\* seen pexpect_run end with out
\* (SentUnlessRaised: the except clause of lines 212-221 left out)
SentUnlessRaised(inf, p, s, out) ==
    IF out = "raise" THEN inf
    ELSE Append(inf, [cell_id |-> p[s].slave_id, status |-> "completed", sender |-> s])
Sent(inf, p, s, out) ==
    Append(inf, [cell_id |-> p[s].slave_id, status |-> TerminalStatus(out), sender |-> s])

\* Tapped_Executor.run up to the terminal message, lines 185-221, in the
\* worker process of insertion s
Tapped_Executor_run(s, out) ==
    /\ procs[s].state = "running"
    /\ procs' = [procs EXCEPT ![s].state = "sent"]
    /\ informer' = Sent(informer, procs, s, out)
    /\ UNCHANGED <<g_workflow_queue, env_config, nsub, last>>

\* lines 222-227 and the end of the worker process
Tapped_Executor_exit(s) ==
    /\ procs[s].state = "sent"
    /\ procs' = [procs EXCEPT ![s].state = "exited"]
    /\ UNCHANGED <<g_workflow_queue, informer, env_config, nsub, last>>

\* execute_pending_workflow(cell_ids, kernel), lines 230-231: writes a line
\* to the log file and returns; the queue and the processes are not looked at
execute_pending_workflow(cell_ids) ==
    /\ last' = [op |-> "poll", cell_id |-> "", error |-> "none", msgs |-> <<>>]
    /\ UNCHANGED <<g_workflow_queue, procs, informer, env_config, nsub>>

\* The queue, its operations and the workers.
Next ==
    \/ \E c \in CellIds : run_sos_workflow(c, CodeOf(nsub + 1), ArgsOf(nsub + 1))
    \/ \E c \in CellIds : cancel_workflow(c)
    \/ \E c \in CellIds : execute_pending_workflow(<<c>>)
    \/ \E s \in Serials, out \in EngineOutcomes : Tapped_Executor_run(s, out)
    \/ \E s \in Serials : Tapped_Executor_exit(s)

Spec == Init /\ [][Next]_vars

\* ------------------------------------ the configuration written to
\* the run mode a scratch cell's %run options give (args.dryrun, line 129):
\* the scratch cells followed here are run with the dryrun option, after a
\* start in interactive mode
RunModes == {"dryrun"}

\* execute_scratch_cell(code, raw_args, kernel), lines 79-174, with
\* c = kernel.cell_id: a call that gets past the returns of lines 83-97
\* updates env.config in place (line 146) with, among others, the run mode
\* of its options and its own cell as slave_id; the step it then runs in
\* the kernel process leaves the queue and the workers alone.
execute_scratch_cell(c, mode, reaches) ==
    /\ env_config' = IF reaches THEN [slave_id |-> c, run_mode |-> mode] ELSE env_config
    /\ UNCHANGED <<g_workflow_queue, procs, informer, nsub, last>>

\* The queue operations, the workers and the scratch cells.
ConfigNext ==
    \/ \E c \in CellIds : run_sos_workflow(c, CodeOf(nsub + 1), ArgsOf(nsub + 1))
    \/ \E c \in CellIds : cancel_workflow(c)
    \/ \E s \in Serials, out \in EngineOutcomes : Tapped_Executor_run(s, out)
    \/ \E s \in Serials : Tapped_Executor_exit(s)
    \/ \E c \in CellIds, mode \in RunModes, reaches \in BOOLEAN :
         execute_scratch_cell(c, mode, reaches)

ConfigSpec == Init /\ [][ConfigNext]_vars

\* ------------------------------------------ behaviours that never stop
\* The kernel may call run_sos_workflow any number of times.  To follow
\* such a behaviour with finitely many serials, an insertion takes the
\* first serial that no entry of the queue carries (the worker that had it,
\* if any, is dead by then); by the time of the call the dead processes
\* the queue no longer refers to are forgotten, and the kernel has read the
\* events sent on the informer socket so far.
FreeSerial(q) ==
    CHOOSE s \in Serials :
        /\ s \notin {q[i].sub : i \in DOMAIN q}
        /\ \A t \in Serials : t \notin {q[i].sub : i \in DOMAIN q} => s <= t

Reaped(p, q) == [s \in Serials |-> IF s \in {q[i].sub : i \in DOMAIN q} THEN p[s] ELSE NoProc]

\* run_sos_workflow, lines 237-267, with the serial reused
run_sos_workflow_again(c) ==
    LET s == FreeSerial(g_workflow_queue) IN
    /\ Submit(c, CodeOf(s), ArgsOf(s), s, Reaped(procs, g_workflow_queue))
    /\ informer' = <<>>

\* a call of run_sos_workflow that returns: cancel_workflow did not raise on
\* line 286 and start() did not raise on line 258
run_sos_workflow_returns ==
    \E c \in CellIds : run_sos_workflow_again(c) /\ last'.error = "none"

\* The queue operations that read or write the queue, and the workers.
LiveNext ==
    \/ \E c \in CellIds : run_sos_workflow_again(c)
    \/ \E c \in CellIds : cancel_workflow(c)
    \/ \E s \in Serials, out \in EngineOutcomes : Tapped_Executor_run(s, out)
    \/ \E s \in Serials : Tapped_Executor_exit(s)

\* Every worker process runs on its own and ends (pexpect_run returns or
\* raises, the process exits), and the kernel keeps calling run_sos_workflow
\* with calls that return.  Such a call is possible in every state (an
\* identity without an entry, or a kill and a start that succeed), so for
\* it weak fairness is the same as occurring again and again.
Fairness ==
    /\ WF_vars(\E s \in Serials, out \in EngineOutcomes : Tapped_Executor_run(s, out))
    /\ WF_vars(\E s \in Serials : Tapped_Executor_exit(s))
    /\ []<><<run_sos_workflow_returns>>_vars

LiveSpec == Init /\ [][LiveNext]_vars /\ Fairness

\* ------------------------------------------------------------- properties
\* What the properties below read off a state, written without the
\* operators of the model above.
IsRunningEntry(e) == e.kind = "executor"
IsPendingEntry(e) == e.kind = "tuple"
IndexOf(q, c) == CHOOSE i \in DOMAIN q : q[i].cell_id = c
EntriesOf(q, c) == {i \in DOMAIN q : q[i].cell_id = c}
SubsIn(q) == {q[i].sub : i \in DOMAIN q}
ProcessLives(s) == procs[s].state \in {"running", "sent"}
EventsOf(inf, s) == Cardinality({i \in DOMAIN inf : inf[i].sender = s})
Returned == last.error = "none"

\* a step in which run_sos_workflow passed line 246, called for a cell that
\* had an entry
IsResubmitStep == nsub' = nsub + 1 /\ last'.cell_id \in Keys(g_workflow_queue)

\* C1: in every reachable state the queue holds at most one Running entry
\* (a worker handle), and a Running entry is the first entry of the queue.
C1_RunningOnlyAtHead ==
    \A i \in DOMAIN g_workflow_queue :
        IsRunningEntry(g_workflow_queue[i]) => i = 1

\* C1 witness: a submit, a cancel and a worker's end have happened, and the
\* queue holds a Running head with two Pending entries behind it.
C1_Witness ==
    /\ Len(g_workflow_queue) = 3
    /\ IsRunningEntry(g_workflow_queue[1])
    /\ IsPendingEntry(g_workflow_queue[2]) /\ IsPendingEntry(g_workflow_queue[3])

\* C2 as claimed: when A is resubmitted while its worker is alive and B waits
\* behind it (A, B, A), the new A takes A's place at the head, ahead of B.
C2_ResubmitKeepsPlace ==
    [][(/\ IsResubmitStep
        /\ Len(g_workflow_queue) = 2
        /\ g_workflow_queue[1].cell_id = last'.cell_id
        /\ IsRunningEntry(g_workflow_queue[1]) /\ ProcessLives(g_workflow_queue[1].sub)
        /\ IsPendingEntry(g_workflow_queue[2]))
       => (/\ g_workflow_queue'[1].cell_id = last'.cell_id
           /\ IndexOf(g_workflow_queue', last'.cell_id)
                < IndexOf(g_workflow_queue', g_workflow_queue[2].cell_id))]_vars

\* C2 amended: a resubmitted identity is put at the tail of the queue, behind
\* every entry that was behind it (A, B, A gives B, A), and the entries that
\* stay keep their order.
C2_ResubmitGoesLast ==
    [][IsResubmitStep
       => (/\ IndexOf(g_workflow_queue', last'.cell_id) = Len(g_workflow_queue')
           /\ \A b \in Keys(g_workflow_queue) \cap Keys(g_workflow_queue') :
                b # last'.cell_id
                => IndexOf(g_workflow_queue', b) < IndexOf(g_workflow_queue', last'.cell_id)
           /\ \A b1, b2 \in (Keys(g_workflow_queue) \cap Keys(g_workflow_queue'))
                              \ {last'.cell_id} :
                IndexOf(g_workflow_queue, b1) < IndexOf(g_workflow_queue, b2)
                => IndexOf(g_workflow_queue', b1) < IndexOf(g_workflow_queue', b2))]_vars

\* C2 witness: A, B, A were submitted, the third call killed the first A's
\* live worker, and the queue is B, A.
C2_Witness ==
    /\ nsub = 3 /\ last.op = "submit" /\ Returned
    /\ Len(g_workflow_queue) = 2
    /\ g_workflow_queue[1].sub = 2 /\ g_workflow_queue[2].sub = 3
    /\ g_workflow_queue[2].cell_id = last.cell_id
    /\ procs[1].state = "killed" /\ procs[1].slave_id = last.cell_id
    /\ last.msgs = <<Aborted(last.cell_id), Pending(last.cell_id, 2)>>

\* C3: after a submit for an identity returns, every worker started earlier
\* for that identity is dead and the queue holds exactly one entry for it,
\* with the code and arguments of this call; and two live workers never
\* serve the same identity.
C3_LatestSubmissionWins ==
    /\ (last.op = "submit" /\ Returned)
       => (/\ Cardinality(EntriesOf(g_workflow_queue, last.cell_id)) = 1
           /\ \A i \in EntriesOf(g_workflow_queue, last.cell_id) :
                /\ g_workflow_queue[i].sub = nsub
                /\ g_workflow_queue[i].code = CodeOf(nsub)
                /\ g_workflow_queue[i].args = ArgsOf(nsub)
                /\ IsRunningEntry(g_workflow_queue[i])
                   => (/\ procs[nsub].code = CodeOf(nsub)
                       /\ procs[nsub].args = ArgsOf(nsub))
           /\ \A s \in Serials :
                (s < nsub /\ procs[s].slave_id = last.cell_id) => ~ProcessLives(s))
    /\ \A s, t \in Serials :
         (s # t /\ ProcessLives(s) /\ ProcessLives(t))
         => procs[s].slave_id # procs[t].slave_id

\* C3 witness: the second insertion is a resubmission (the call sent
\* 'aborted' before 'pending') that killed the live worker of the first.
C3_Witness ==
    /\ nsub = 2 /\ last.op = "submit" /\ Returned
    /\ last.msgs = <<Aborted(last.cell_id), Pending(last.cell_id, 1)>>
    /\ procs[1].state = "killed" /\ procs[1].slave_id = last.cell_id
    /\ procs[2].state = "running" /\ procs[2].slave_id = last.cell_id

\* C4 as claimed: every worker that has ended, by itself or killed by
\* cancel, has put exactly one terminal event on the informer channel.
C4_OneEventHoweverEnded ==
    \A s \in Serials :
        procs[s].state \in {"exited", "killed"} => EventsOf(informer, s) = 1

\* C4 amended: a started worker puts at most one terminal event, with the
\* identity of the entry it was promoted for, on the informer channel:
\* none before its engine invocation has ended, exactly one once the
\* invocation has returned or raised, and none at all when cancel kills the
\* process before that (a killed process sends nothing more).
C4_OneEventUnlessKilled ==
    /\ [](/\ \A s \in Serials :
               /\ EventsOf(informer, s) <= 1
               /\ procs[s].state \in {"none", "running"} => EventsOf(informer, s) = 0
               /\ procs[s].state \in {"sent", "exited"} => EventsOf(informer, s) = 1
          /\ \A i \in DOMAIN informer :
               /\ informer[i].status \in {"completed", "failed"}
               /\ informer[i].cell_id = procs[informer[i].sender].slave_id
          /\ \A i \in DOMAIN g_workflow_queue :
               IsRunningEntry(g_workflow_queue[i])
               => procs[g_workflow_queue[i].sub].slave_id = g_workflow_queue[i].cell_id)
    /\ [][\A s \in Serials :
            procs'[s].state = "killed"
            => EventsOf(informer', s) = EventsOf(informer, s)]_vars

\* C4 witness: one worker ended by itself with its one event, another was
\* killed by cancel and sent none.
C4_Witness ==
    \E s, t \in Serials :
        /\ procs[s].state = "exited" /\ EventsOf(informer, s) = 1
        /\ procs[t].state = "killed" /\ EventsOf(informer, t) = 0

\* C5: a submit that returns has sent exactly one 'pending' message, for the
\* submitting identity, whose number is that identity's 1-based place in the
\* queue the call leaves; as long as nothing was ever removed, the n-th
\* submission is told n (X, Y, Z: 1, 2, 3).
C5_PendingPosition ==
    (last.op = "submit" /\ Returned)
    => LET pend == {i \in DOMAIN last.msgs : last.msgs[i].status = "pending"} IN
       /\ Cardinality(pend) = 1
       /\ \A i \in pend :
            /\ last.msgs[i].cell_id = last.cell_id
            /\ last.msgs[i].msg = IndexOf(g_workflow_queue, last.cell_id)
            /\ Len(g_workflow_queue) = nsub => last.msgs[i].msg = nsub

\* C5 witness: three identities were submitted, none has left the queue, and
\* the third call reported place 3.
C5_Witness ==
    /\ nsub = 3 /\ Len(g_workflow_queue) = 3
    /\ last.op = "submit" /\ Returned
    /\ last.msgs = <<Pending(g_workflow_queue[3].cell_id, 3)>>
    /\ IsRunningEntry(g_workflow_queue[1]) /\ ProcessLives(g_workflow_queue[1].sub)

\* a step of cancel_workflow(c) / of run_sos_workflow for caller c; the call
\* is looked at only in steps that leave its record in last
CancelStep(c) == last'.op = "cancel" /\ last'.cell_id = c /\ cancel_workflow(c)
SubmitStep(c) ==
    /\ last'.op = "submit" /\ last'.cell_id = c
    /\ run_sos_workflow(c, CodeOf(nsub + 1), ArgsOf(nsub + 1))

\* C6: a cancel of an identity that is not in the queue sends 'aborted' for
\* it, returns without error and changes nothing else: the queue, the
\* processes, the informer channel and the configuration stay as they are.
C6_CancelAbsentChangesNothing ==
    [][\A c \in CellIds :
         (c \notin Keys(g_workflow_queue) /\ CancelStep(c))
         => (/\ g_workflow_queue' = g_workflow_queue
             /\ procs' = procs
             /\ informer' = informer
             /\ env_config' = env_config
             /\ nsub' = nsub
             /\ last' = [op |-> "cancel", cell_id |-> c, error |-> "none",
                         msgs |-> <<[cell_id |-> c, status |-> "aborted", msg |-> 0]>>])]_vars

\* C6 witness: two identities were inserted and are both still queued, the
\* head's worker is alive, and the last call was a cancel of a third
\* identity, which returned.
C6_Witness ==
    /\ nsub = 2 /\ Len(g_workflow_queue) = 2
    /\ ProcessLives(g_workflow_queue[1].sub)
    /\ last.op = "cancel" /\ Returned
    /\ last.cell_id \notin Keys(g_workflow_queue)
    /\ last.msgs = <<Aborted(last.cell_id)>>

\* C7: an entry whose worker is alive leaves the queue only in a step after
\* which the worker's process no longer exists; a call that ends with
\* 'Failed to kill workflow' leaves the queue as it was (the entry still
\* Running, nothing inserted, no 'pending' sent), and a cancel that returns
\* has removed the entry.
C7_ConfirmedTermination ==
    /\ [](/\ last.error = "Failed to kill workflow"
             => (/\ Cardinality(EntriesOf(g_workflow_queue, last.cell_id)) = 1
                 /\ IsRunningEntry(g_workflow_queue[IndexOf(g_workflow_queue, last.cell_id)])
                 /\ \A i \in DOMAIN last.msgs : last.msgs[i].status # "pending")
          /\ (last.op = "cancel" /\ Returned)
             => last.cell_id \notin Keys(g_workflow_queue))
    /\ [][/\ \A i \in DOMAIN g_workflow_queue :
               (/\ IsRunningEntry(g_workflow_queue[i])
                /\ ProcessLives(g_workflow_queue[i].sub)
                /\ g_workflow_queue[i].sub \notin SubsIn(g_workflow_queue'))
               => (/\ procs'[g_workflow_queue[i].sub].state = "killed"
                   /\ last'.error # "Failed to kill workflow")
          /\ last'.error = "Failed to kill workflow"
               => (g_workflow_queue' = g_workflow_queue /\ nsub' = nsub)]_vars

\* C7 witness: a resubmission found its worker alive, could not kill it and
\* failed; the entry is still the Running head, with a Pending entry behind.
C7_Witness ==
    /\ last.op = "submit" /\ last.error = "Failed to kill workflow"
    /\ Len(g_workflow_queue) = 2
    /\ g_workflow_queue[1].cell_id = last.cell_id
    /\ IsRunningEntry(g_workflow_queue[1]) /\ ProcessLives(g_workflow_queue[1].sub)

\* C8: a Pending entry leaves the queue only through the cancellation path
\* for its identity, which sends 'aborted' first and starts no process for
\* it; a cancel that returns has removed the entry; and an insertion that
\* left the queue without a process never gets one later.
C8_CancelledPendingNeverStarts ==
    /\ []((last.op = "cancel" /\ Returned) => last.cell_id \notin Keys(g_workflow_queue))
    /\ [][/\ \A i \in DOMAIN g_workflow_queue :
               (/\ IsPendingEntry(g_workflow_queue[i])
                /\ g_workflow_queue[i].sub \notin SubsIn(g_workflow_queue'))
               => (/\ last'.cell_id = g_workflow_queue[i].cell_id
                   /\ Len(last'.msgs) >= 1
                   /\ last'.msgs[1] = [cell_id |-> g_workflow_queue[i].cell_id,
                                       status |-> "aborted", msg |-> 0]
                   /\ procs'[g_workflow_queue[i].sub].state = "none")
          /\ \A s \in Serials :
               (/\ s <= nsub
                /\ s \notin SubsIn(g_workflow_queue)
                /\ procs[s].state = "none")
               => procs'[s].state = "none"]_vars

\* C8 witness: the second insertion waited behind a live worker, was
\* cancelled while Pending and has no process; a third insertion followed.
C8_Witness ==
    /\ nsub = 3
    /\ 2 \notin SubsIn(g_workflow_queue) /\ procs[2].state = "none"
    /\ procs[1].state = "running" /\ 1 \in SubsIn(g_workflow_queue)
    /\ last.op = "submit" /\ Returned

\* C9 as claimed: when starting the worker of the head entry fails, the
\* caller gets a 'failed' status for that identity and the entry is removed
\* from the queue.
C9_SpawnFailureReported ==
    last.error = "start failed"
    => (/\ \E i \in DOMAIN last.msgs :
             /\ last.msgs[i].status = "failed"
             /\ last.msgs[i].cell_id = env_config.slave_id
        /\ env_config.slave_id \notin Keys(g_workflow_queue))

\* C10 as claimed: the terminal event of a worker whose engine invocation
\* exits with a non-zero code or raises is 'failed'; 'completed' is sent
\* only for exit code zero.
C10_NonZeroExitIsFailed ==
    [][\A s \in Serials, out \in EngineOutcomes :
         Tapped_Executor_run(s, out)
         => informer'[Len(informer')].status
              = (IF out = "exit0" THEN "completed" ELSE "failed")]_vars

\* a step in which run_sos_workflow passed line 246: an insertion was made
IsInsertStep == nsub' = nsub + 1

\* the place in queue q of the entry of insertion s
SubIndex(q, s) == CHOOSE i \in DOMAIN q : q[i].sub = s

\* C11: every submit that reaches the insertion leaves the new entry, with
\* the caller's identity and this call's code and arguments, as the last
\* entry of the queue, also when the identity had an entry before the call;
\* every other entry of the resulting queue was in the queue before, and
\* these entries keep their relative order.
C11_SubmitPlacesLast ==
    [][IsInsertStep
       => (/\ Len(g_workflow_queue') >= 1
           /\ g_workflow_queue'[Len(g_workflow_queue')].sub = nsub'
           /\ g_workflow_queue'[Len(g_workflow_queue')].cell_id = last'.cell_id
           /\ g_workflow_queue'[Len(g_workflow_queue')].code = CodeOf(nsub')
           /\ g_workflow_queue'[Len(g_workflow_queue')].args = ArgsOf(nsub')
           /\ Len(g_workflow_queue') > 1
              => IsPendingEntry(g_workflow_queue'[Len(g_workflow_queue')])
           /\ \A i \in DOMAIN g_workflow_queue' :
                i < Len(g_workflow_queue')
                => g_workflow_queue'[i].sub \in SubsIn(g_workflow_queue)
           /\ \A s, t \in SubsIn(g_workflow_queue) \cap SubsIn(g_workflow_queue') :
                SubIndex(g_workflow_queue, s) < SubIndex(g_workflow_queue, t)
                => SubIndex(g_workflow_queue', s) < SubIndex(g_workflow_queue', t))]_vars

\* C11 witness: B was submitted behind a live worker and submitted again
\* while still Pending; the old entry was removed without a process and the
\* new one is the last entry.
C11_Witness ==
    /\ nsub = 3 /\ last.op = "submit" /\ Returned
    /\ Len(g_workflow_queue) = 2
    /\ g_workflow_queue[1].sub = 1 /\ ProcessLives(1)
    /\ g_workflow_queue[2].sub = 3 /\ g_workflow_queue[2].cell_id = last.cell_id
    /\ procs[2].state = "none"
    /\ last.msgs = <<Aborted(last.cell_id), Pending(last.cell_id, 2)>>

\* C12: in a submit that reaches the insertion, an entry of another
\* identity leaves the queue exactly when it is Running and its worker's
\* process is no longer alive; every Pending entry and a Running entry with
\* a live worker stay, with their code and arguments and in their order; the
\* new entry stays, so the caller's identity is in the queue when its place
\* is computed, and the place reported is a place of the queue.
C12_PruneRemovesDeadRunning ==
    [][IsInsertStep
       => (/\ \A i \in DOMAIN g_workflow_queue :
                g_workflow_queue[i].cell_id # last'.cell_id
                => (g_workflow_queue[i].sub \in SubsIn(g_workflow_queue')
                    <=> (\/ IsPendingEntry(g_workflow_queue[i])
                         \/ ProcessLives(g_workflow_queue[i].sub)))
           /\ \A i \in DOMAIN g_workflow_queue, j \in DOMAIN g_workflow_queue' :
                g_workflow_queue[i].sub = g_workflow_queue'[j].sub
                => (/\ g_workflow_queue'[j].cell_id = g_workflow_queue[i].cell_id
                    /\ g_workflow_queue'[j].code = g_workflow_queue[i].code
                    /\ g_workflow_queue'[j].args = g_workflow_queue[i].args
                    /\ IsRunningEntry(g_workflow_queue[i])
                       => IsRunningEntry(g_workflow_queue'[j])
                    /\ \A k \in DOMAIN g_workflow_queue :
                         (k < i /\ g_workflow_queue[k].sub \in SubsIn(g_workflow_queue'))
                         => SubIndex(g_workflow_queue', g_workflow_queue[k].sub) < j)
           /\ nsub' \in SubsIn(g_workflow_queue')
           /\ Cardinality(EntriesOf(g_workflow_queue', last'.cell_id)) = 1
           /\ \A n \in DOMAIN last'.msgs :
                last'.msgs[n].status = "pending"
                => (/\ last'.msgs[n].msg \in DOMAIN g_workflow_queue'
                    /\ g_workflow_queue'[last'.msgs[n].msg].sub = nsub'))]_vars

\* C12 witness: the first worker ended while a second identity waited; the
\* third submit, of another identity, found the dead Running head, dropped
\* it, kept the Pending entry (now the Running head) and reported place 2.
C12_Witness ==
    /\ nsub = 3 /\ last.op = "submit" /\ Returned
    /\ Len(g_workflow_queue) = 2
    /\ g_workflow_queue[1].sub = 2 /\ IsRunningEntry(g_workflow_queue[1])
    /\ g_workflow_queue[2].sub = 3 /\ IsPendingEntry(g_workflow_queue[2])
    /\ procs[1].state = "exited"
    /\ procs[1].slave_id \notin Keys(g_workflow_queue)
    /\ last.msgs = <<Pending(last.cell_id, 2)>>

\* an entry whose worker has put its terminal event on the informer channel
HasReported(e) == IsRunningEntry(e) /\ procs[e.sub].state \in {"sent", "exited"}

\* an entry whose worker's process has ended
HasEnded(e) == IsRunningEntry(e) /\ ~ProcessLives(e.sub)

\* C13 as claimed: no entry whose worker has reported completed or failed is
\* still in the queue after a submit or a cancel call, of any identity, that
\* returns.
C13_FinishedRemovedByNextCall ==
    [][(/\ \/ \E c \in CellIds : cancel_workflow(c)
           \/ \E c \in CellIds : run_sos_workflow(c, CodeOf(nsub + 1), ArgsOf(nsub + 1))
        /\ last'.error = "none")
       => \A i \in DOMAIN g_workflow_queue :
            HasReported(g_workflow_queue[i])
            => g_workflow_queue[i].sub \notin SubsIn(g_workflow_queue')]_vars

\* C13 amended: an entry whose worker's process has ended is removed by the
\* next submit that reaches the prune, whatever its identity, and by a cancel
\* of its own identity; a cancel of another identity leaves it in the queue,
\* and a submit of another identity leaves it too as long as the worker,
\* having reported, is still alive.
C13_EndedRemovedBySubmit ==
    [][/\ IsInsertStep
          => \A i \in DOMAIN g_workflow_queue :
               /\ HasEnded(g_workflow_queue[i])
                  => g_workflow_queue[i].sub \notin SubsIn(g_workflow_queue')
               /\ (/\ HasReported(g_workflow_queue[i])
                   /\ ProcessLives(g_workflow_queue[i].sub)
                   /\ g_workflow_queue[i].cell_id # last'.cell_id)
                  => g_workflow_queue[i].sub \in SubsIn(g_workflow_queue')
       /\ \A c \in CellIds :
            CancelStep(c)
            => \A i \in DOMAIN g_workflow_queue :
                 HasEnded(g_workflow_queue[i])
                 => (g_workflow_queue[i].sub \in SubsIn(g_workflow_queue')
                     <=> g_workflow_queue[i].cell_id # c)]_vars

\* C13 witness: the first worker has ended and its entry is still the head
\* of the queue after a cancel that removed the Pending entry of another
\* identity.
C13_Witness ==
    /\ nsub = 2 /\ last.op = "cancel" /\ Returned
    /\ Len(g_workflow_queue) = 1
    /\ g_workflow_queue[1].sub = 1 /\ IsRunningEntry(g_workflow_queue[1])
    /\ procs[1].state = "exited"
    /\ g_workflow_queue[1].cell_id # last.cell_id
    /\ procs[2].state = "none"

\* the 'aborted' messages among the frontend messages of a call
AbortedIn(msgs) == {n \in DOMAIN msgs : msgs[n].status = "aborted"}

\* C14: every cancel call sends exactly one 'aborted' message for the given
\* identity and no other message, when the identity is not in the queue and
\* when the kill fails as well; a submit of an identity that has an entry
\* sends 'aborted' for it first and, when it returns, 'pending' for it next;
\* a submit of an identity without an entry sends no 'aborted'.
C14_AbortedFirst ==
    /\ [](/\ last.op = "cancel"
             => last.msgs = <<[cell_id |-> last.cell_id, status |-> "aborted", msg |-> 0]>>
          /\ last.op = "submit"
             => (/\ Cardinality(AbortedIn(last.msgs)) <= 1
                 /\ AbortedIn(last.msgs) \subseteq {1}
                 /\ \A n \in DOMAIN last.msgs : last.msgs[n].cell_id = last.cell_id
                 /\ last.error = "Failed to kill workflow"
                    => last.msgs = <<[cell_id |-> last.cell_id, status |-> "aborted",
                                      msg |-> 0]>>))
    /\ [][\A c \in CellIds :
            /\ CancelStep(c)
               => (/\ last'.msgs = <<[cell_id |-> c, status |-> "aborted", msg |-> 0]>>
                   /\ c \notin Keys(g_workflow_queue) => last'.error = "none"
                   /\ last'.error # "none" => c \in Keys(g_workflow_queue'))
            /\ SubmitStep(c)
               => (/\ c \in Keys(g_workflow_queue)
                      => (/\ Len(last'.msgs) >= 1
                          /\ last'.msgs[1] = [cell_id |-> c, status |-> "aborted", msg |-> 0]
                          /\ last'.error = "none"
                             => (/\ Len(last'.msgs) = 2
                                 /\ last'.msgs[2].status = "pending"
                                 /\ last'.msgs[2].cell_id = c))
                   /\ c \notin Keys(g_workflow_queue) => AbortedIn(last'.msgs) = {})]_vars

\* C14 witness: a cancel of the Running head could not kill the worker: it
\* sent 'aborted', raised, and the entry is still in the queue with a
\* Pending entry behind it.
C14_Witness ==
    /\ last.op = "cancel" /\ last.error = "Failed to kill workflow"
    /\ last.msgs = <<Aborted(last.cell_id)>>
    /\ Len(g_workflow_queue) = 2
    /\ g_workflow_queue[1].cell_id = last.cell_id
    /\ ProcessLives(g_workflow_queue[1].sub)
    /\ IsPendingEntry(g_workflow_queue[2])

\* C15 as claimed: after the poll operation no entry with a dead worker is
\* left in the queue, and the head of the queue, if there is one, is Running:
\* a Pending head has been promoted and its worker started.
C15_PollPrunesAndPromotes ==
    [][\A c \in CellIds :
         execute_pending_workflow(<<c>>)
         => (/\ \A i \in DOMAIN g_workflow_queue :
                  HasEnded(g_workflow_queue[i])
                  => g_workflow_queue[i].sub \notin SubsIn(g_workflow_queue')
             /\ g_workflow_queue' # <<>>
                => (/\ IsRunningEntry(g_workflow_queue'[1])
                    /\ procs'[g_workflow_queue'[1].sub].state = "running"))]_vars

\* insertion s has a Pending / a Running entry in the queue
PendingIn(q, s) == \E i \in DOMAIN q : q[i].sub = s /\ IsPendingEntry(q[i])
RunningIn(q, s) == \E i \in DOMAIN q : q[i].sub = s /\ IsRunningEntry(q[i])

\* C16: when every worker ends and submit calls that return keep occurring,
\* every Pending entry is eventually promoted to Running unless the
\* cancellation path removes it first (a cancel or a resubmission of its
\* identity): no insertion stays Pending for ever, so at all times there is
\* a later time at which it is Running or has left the queue; and an entry is promoted only as the first entry of the
\* queue, with its worker started in that step, when every entry that was
\* ahead of it had a dead worker or was the caller's own, removed by the
\* call.
C16_PendingEventuallyPromoted ==
    /\ \A s \in Serials :
         []<>(RunningIn(g_workflow_queue, s) \/ s \notin SubsIn(g_workflow_queue))
    /\ [][\A i \in DOMAIN g_workflow_queue :
            (/\ IsPendingEntry(g_workflow_queue[i])
             /\ RunningIn(g_workflow_queue', g_workflow_queue[i].sub))
            => (/\ g_workflow_queue'[1].sub = g_workflow_queue[i].sub
                /\ procs'[g_workflow_queue[i].sub].state = "running"
                /\ \A k \in DOMAIN g_workflow_queue :
                     k < i => (\/ g_workflow_queue[k].cell_id = last'.cell_id
                               \/ HasEnded(g_workflow_queue[k])))]_vars

\* C16 witness: B waited behind the live worker of A; that worker ended by
\* itself, and the next submit (of A again) dropped its entry and promoted
\* B, whose worker is alive, with the new A Pending behind it.
C16_Witness ==
    /\ Len(g_workflow_queue) = 2
    /\ IsRunningEntry(g_workflow_queue[1]) /\ ProcessLives(g_workflow_queue[1].sub)
    /\ IsPendingEntry(g_workflow_queue[2])
    /\ g_workflow_queue[1].cell_id = "B" /\ g_workflow_queue[2].cell_id = "A"
    /\ \E t \in Serials : procs[t].state = "exited" /\ procs[t].slave_id = "A"
    /\ last.op = "submit" /\ last.cell_id = "A"
    /\ last.msgs = <<Aborted("A"), Pending("A", 2)>>

\* the workers whose process is alive
LiveWorkers == {s \in Serials : ProcessLives(s)}

\* C17: at most one worker process is alive at any time, and it is the
\* worker of the Running first entry of the queue; a step that starts a
\* worker leaves it the only live one, and a step that a live worker
\* survives starts none; the terminal events on the informer channel are in
\* the order in which their workers were started (workers are started in
\* the order of their insertions).
C17_OneWorkerAlive ==
    /\ [](/\ Cardinality(LiveWorkers) <= 1
          /\ \A s \in LiveWorkers :
               /\ g_workflow_queue # <<>>
               /\ g_workflow_queue[1].sub = s
               /\ IsRunningEntry(g_workflow_queue[1])
          /\ \A i, j \in DOMAIN informer :
               i < j => informer[i].sender < informer[j].sender
          /\ \A s, t \in Serials :
               (s < t /\ procs[t].state # "none") => ~ProcessLives(s))
    /\ [][\A t \in Serials :
            (procs[t].state = "none" /\ procs'[t].state # "none")
            => (/\ procs'[t].state = "running"
                /\ \A s \in Serials : ProcessLives(s) => procs'[s].state = "killed"
                /\ \A s \in Serials \ {t} : procs'[s].state \notin {"running", "sent"}
                /\ \A i \in DOMAIN informer' : informer'[i].sender < t)]_vars

\* C17 witness: two workers have ended one after the other, each with its
\* event on the informer channel, and the third is alive as the Running
\* head.
C17_Witness ==
    /\ Len(informer) = 2
    /\ informer[1].sender = 1 /\ informer[2].sender = 2
    /\ procs[1].state = "exited" /\ procs[2].state = "exited"
    /\ procs[3].state = "running"
    /\ g_workflow_queue # <<>> /\ g_workflow_queue[1].sub = 3

\* C18 as claimed: the worker started for an entry gets the code, the
\* arguments and the configuration (here its run mode) that were current
\* when the entry was submitted, whatever was written to env.config between
\* the submission and the promotion.
C18_WorkerGetsSubmittedConfig ==
    [][\A t \in Serials :
         (procs[t].state = "none" /\ procs'[t].state = "running")
         => \E i \in DOMAIN g_workflow_queue' :
              /\ g_workflow_queue'[i].sub = t
              /\ procs'[t].code = g_workflow_queue'[i].code
              /\ procs'[t].args = g_workflow_queue'[i].args
              /\ procs'[t].run_mode = g_workflow_queue'[i].submitted_run_mode]_vars

\* C19: a terminal event is put on the informer channel only by the live
\* worker of the entry the queue holds for the event's identity (the one
\* entry of that identity, its most recent insertion), and it carries the
\* identity of that entry, whoever's submit started the worker; every worker
\* started for an earlier insertion of an identity that has an entry is
\* dead, so once a resubmission has returned the replaced worker sends
\* nothing.
C19_NoStaleEvent ==
    /\ [](/\ \A i \in DOMAIN g_workflow_queue, s \in Serials :
               (/\ s < g_workflow_queue[i].sub
                /\ procs[s].state # "none"
                /\ procs[s].slave_id = g_workflow_queue[i].cell_id)
               => procs[s].state \in {"exited", "killed"}
          /\ \A n \in DOMAIN informer :
               informer[n].cell_id = procs[informer[n].sender].slave_id
          /\ \A s \in Serials :
               ProcessLives(s)
               => (/\ Cardinality(EntriesOf(g_workflow_queue, procs[s].slave_id)) = 1
                   /\ g_workflow_queue[IndexOf(g_workflow_queue, procs[s].slave_id)].sub = s))
    /\ [][Len(informer') > Len(informer)
          => (/\ Len(informer') = Len(informer) + 1
              /\ SubSeq(informer', 1, Len(informer)) = informer
              /\ LET ev == informer'[Len(informer')] IN
                 /\ procs[ev.sender].state = "running"
                 /\ Cardinality(EntriesOf(g_workflow_queue, ev.cell_id)) = 1
                 /\ g_workflow_queue[IndexOf(g_workflow_queue, ev.cell_id)].sub = ev.sender
                 /\ \A s \in Serials :
                      (s > ev.sender /\ s <= nsub)
                      => (/\ procs[s].slave_id # ev.cell_id
                          /\ \A i \in DOMAIN g_workflow_queue :
                               g_workflow_queue[i].sub = s
                               => g_workflow_queue[i].cell_id # ev.cell_id))]_vars

\* C19 witness: a resubmission of the Running head killed its worker, which
\* sent nothing, and promoted the entry of another identity; that entry's
\* worker has sent its event, under its own identity and not the caller's.
C19_Witness ==
    /\ nsub = 3 /\ Len(g_workflow_queue) = 2
    /\ g_workflow_queue[1].sub = 2 /\ g_workflow_queue[2].sub = 3
    /\ last.op = "submit" /\ last.cell_id = g_workflow_queue[2].cell_id
    /\ last.msgs = <<Aborted(last.cell_id), Pending(last.cell_id, 2)>>
    /\ procs[1].state = "killed" /\ procs[1].slave_id = last.cell_id
    /\ procs[2].state = "sent"
    /\ Len(informer) = 1
    /\ informer[1].sender = 2 /\ informer[1].cell_id = g_workflow_queue[1].cell_id

\* C20: a cancel call leaves the queue as it is or takes out the entry of
\* the cancelled identity and nothing else: the other entries stay as they
\* are, Pending or Running, in their order; it starts no process and changes
\* none but, at most, the worker of the cancelled entry, which it kills; it
\* sends nothing on the informer channel and leaves the configuration alone.
\* A Pending entry becomes Running only in a submit call, so the entry behind
\* a cancelled Running head stays Pending until a later submit.
C20_CancelOnlyRemoves ==
    [][/\ \A c \in CellIds :
            CancelStep(c)
            => (/\ \/ g_workflow_queue' = g_workflow_queue
                   \/ /\ c \in Keys(g_workflow_queue)
                      /\ last'.error = "none"
                      /\ g_workflow_queue'
                           = SelectSeq(g_workflow_queue, LAMBDA e : e.cell_id # c)
                /\ \A t \in Serials :
                     \/ procs'[t] = procs[t]
                     \/ /\ procs[t].state \in {"running", "sent"}
                        /\ procs'[t] = [procs[t] EXCEPT !.state = "killed"]
                        /\ \E i \in DOMAIN g_workflow_queue :
                             /\ g_workflow_queue[i].cell_id = c
                             /\ g_workflow_queue[i].sub = t
                /\ informer' = informer
                /\ env_config' = env_config
                /\ nsub' = nsub)
       /\ \A i \in DOMAIN g_workflow_queue :
            (/\ IsPendingEntry(g_workflow_queue[i])
             /\ RunningIn(g_workflow_queue', g_workflow_queue[i].sub))
            => (last'.op = "submit" /\ IsInsertStep)]_vars

\* C20 witness: the Running head was cancelled and its worker killed; the
\* two entries behind it are both still Pending, the second and third
\* insertions in their order, and no process was started for them.
C20_Witness ==
    /\ nsub = 3 /\ last.op = "cancel" /\ Returned
    /\ procs[1].state = "killed" /\ procs[1].slave_id = last.cell_id
    /\ Len(g_workflow_queue) = 2
    /\ g_workflow_queue[1].sub = 2 /\ IsPendingEntry(g_workflow_queue[1])
    /\ g_workflow_queue[2].sub = 3 /\ IsPendingEntry(g_workflow_queue[2])
    /\ procs[2].state = "none" /\ procs[3].state = "none"

====
